---- MODULE Spec2Model ----
(***************************************************************************)
(* Tab-scoped state coordination of the extension's background controller  *)
(* (src/src/background.ts) and of the panel-side hook that shares the      *)
(* keyed store with it (useApplicationQuestions, src/unnamed/part_001).    *)
(*                                                                         *)
(* Every chrome.storage.local get/set is a suspension point: a handler is  *)
(* one action up to its first await, and one action per storage call that  *)
(* resolves or rejects afterwards.                                         *)
(***************************************************************************)
EXTENDS Integers, Sequences, FiniteSets, TLC

\* ------------------------------------------------------------------ bounds
MaxTab == 2
MaxReq == 3
MaxInitCount == 1
MaxArt == 2
MaxOp == 2

Tabs == 1..MaxTab
Reqs == 1..MaxReq
Arts == 1..MaxArt
Ops == 1..MaxOp

VARIABLES
    \* host (browser) state
    tabState,          \* [Tabs -> {"none","open","closed"}]: tab ids are never reused
    tabOption,         \* [Tabs -> {"unset","enabled","disabled"}]: per-tab panel options
    defaultOption,     \* "unset" | "disabled": global panel option (no tabId)
    panelOpen,         \* [Tabs -> BOOLEAN]: the panel is displayed for the tab
    \* controller memory
    activePanelTabs,   \* SUBSET Tabs, background.ts:15
    lastEvent,         \* the last event handled and the host commands it issued
    \* keyed store (chrome.storage.local)
    tabSuggestions,    \* the keys of the map stored under 'tabSuggestions'
    allAnsweredQuestions, \* [keys -> Seq(Arts)], the map under 'allAnsweredQuestions'
    usedSuggestionCreditsCount, \* <<>> when the key is absent, <<n>> otherwise
    \* cleanupTabPanelStoredLastGenData(tabId), one call per removed tab
    cleanupPc,         \* [Tabs -> {"idle","read","write","done","failed","killed"}]
    cleanupLocal,      \* [Tabs -> SUBSET Tabs]: the call's local tabSuggestions
    \* incrementCreditUsage(), one call per incrementCredits message
    incPc,             \* [Reqs -> {"idle","read","write","done","killed"}]
    incCur,            \* [Reqs -> Nat]: currentCount of the call
    incResp,           \* [Reqs -> Seq(response)]: what sendResponse was given
    incReads,          \* [Reqs -> Nat]: storage reads the call issued
    incWrites,         \* [Reqs -> Nat]: storage writes the call issued
    incErr,            \* [Reqs -> {"none","get","set"}]: the storage call that rejected
    incBefore,         \* [Reqs -> stored]: what the store held when the call started
    initCount,         \* the stored count before any increment (0 when absent)
    overlapped,        \* some increment started while another was in flight
    \* panel-side hook useApplicationQuestions, one panel per tab
    currentTabId,      \* [Tabs -> 0..MaxTab]: 0 is null
    tabSpecificAnsweredQuestions, \* [Tabs -> Seq(Arts)]: the React state
    rendered,          \* [Tabs -> Seq(Arts)]: the list the last render's closures hold
    \* saveQuestion / deleteQuestion calls that passed the tab-id guard, numbered
    \* in the order they were made
    opTab,             \* [Ops -> 0..MaxTab]: the panel (tab) that made the call, 0: unused
    opKind,            \* [Ops -> {"none","save","delete"}]
    opArt,             \* [Ops -> 0..MaxArt]: the artifact saved or deleted
    opPc,              \* [Ops -> {"idle","read","write","done","failed","killed"}]
    opUpdated,         \* [Ops -> Seq(Arts)]: updatedTabAnsweredQuestions
    opMap,             \* [Ops -> map]: the call's local allAnsweredQuestions
    nextArt            \* artifacts generated so far: crypto.randomUUID() ids are fresh

hostVars == <<tabState, tabOption, defaultOption, panelOpen>>
ctlVars == <<activePanelTabs, lastEvent>>
storeVars == <<tabSuggestions, allAnsweredQuestions, usedSuggestionCreditsCount>>
cleanupVars == <<cleanupPc, cleanupLocal>>
incVars == <<incPc, incCur, incResp, incReads, incWrites, incErr, incBefore,
            initCount, overlapped>>
opVars == <<opTab, opKind, opArt, opPc, opUpdated, opMap>>
panelVars == <<currentTabId, tabSpecificAnsweredQuestions, rendered, opVars, nextArt>>
vars == <<hostVars, ctlVars, storeVars, cleanupVars, incVars, panelVars>>

\* ------------------------------------------------------------------ helpers
EmptyMap == [k \in {} |-> <<>>]

\* Mutant: the default of an absent counter is 1 (|| 1).
CountOrZeroDefaultOne(stored) == IF stored = <<>> THEN 1 ELSE stored[1]

\* result.usedSuggestionCreditsCount || 0
CountOrZero(stored) == IF stored = <<>> THEN 0 ELSE stored[1]

\* What a query of a tab's panel enablement yields: the tab's own option, or
\* the global default when the tab has none. "unset" means the extension never
\* set it (the manifest declares no default side panel).
Enablement(t) == IF tabOption[t] = "unset" THEN defaultOption ELSE tabOption[t]

\* Host commands; tabId 0 is "no tabId" and path "none" is "no path".
\* chrome.sidePanel.setOptions({tabId, path: 'sidepanel.html', enabled: true}) or
\* chrome.sidePanel.setOptions({tabId, enabled: false})
SetOptionsCmd(t, en) ==
    [cmd |-> "setOptions", tabId |-> t, enabled |-> en,
     path |-> IF en THEN "sidepanel.html" ELSE "none"]
\* chrome.sidePanel.open({tabId})
OpenCmd(t) == [cmd |-> "open", tabId |-> t, enabled |-> TRUE, path |-> "none"]
\* What a listener did: the event, its tab (0: none), the host commands it
\* issued in order, and whether the tab was in activePanelTabs when it started.
Event(type, t, cmds) ==
    [type |-> type, tab |-> t, cmds |-> cmds, member |-> t \in activePanelTabs]

\* ------------------------------------------------------------------ initial state
\* The worker has just started: its memory is empty, no handler has run. Tabs
\* opened before the extension was loaded are open, the others do not exist yet.
InitWith(counts) ==
    /\ tabState \in [Tabs -> {"none", "open"}]
    /\ tabOption = [t \in Tabs |-> "unset"]
    /\ defaultOption = "unset"
    /\ panelOpen = [t \in Tabs |-> FALSE]
    /\ activePanelTabs = {}
    /\ lastEvent = Event("start", 0, <<>>)
    /\ tabSuggestions = {}
    /\ allAnsweredQuestions = EmptyMap
    /\ usedSuggestionCreditsCount \in counts
    /\ cleanupPc = [t \in Tabs |-> "idle"]
    /\ cleanupLocal = [t \in Tabs |-> {}]
    /\ incPc = [r \in Reqs |-> "idle"]
    /\ incCur = [r \in Reqs |-> 0]
    /\ incResp = [r \in Reqs |-> <<>>]
    /\ incReads = [r \in Reqs |-> 0]
    /\ incWrites = [r \in Reqs |-> 0]
    /\ incErr = [r \in Reqs |-> "none"]
    /\ incBefore = [r \in Reqs |-> <<>>]
    /\ initCount = IF usedSuggestionCreditsCount = <<>> THEN 0
                   ELSE usedSuggestionCreditsCount[1]
    /\ overlapped = FALSE
    /\ currentTabId = [t \in Tabs |-> 0]
    /\ tabSpecificAnsweredQuestions = [t \in Tabs |-> <<>>]
    /\ rendered = [t \in Tabs |-> <<>>]
    /\ opTab = [o \in Ops |-> 0]
    /\ opKind = [o \in Ops |-> "none"]
    /\ opArt = [o \in Ops |-> 0]
    /\ opPc = [o \in Ops |-> "idle"]
    /\ opUpdated = [o \in Ops |-> <<>>]
    /\ opMap = [o \in Ops |-> EmptyMap]
    /\ nextArt = 0

\* A fresh profile: nothing is stored yet.
Init == InitWith({<<>>})

\* A profile whose usage counter may already hold a count.
InitCounter == InitWith({<<>>} \cup {<<c>> : c \in 0..MaxInitCount})

\* ------------------------------------------------------------------ host events
\* Mutant: the panel is opened before its options are set.
ActionClickedOpenFirst(t) ==
    /\ tabState[t] = "open"
    /\ tabOption' = [tabOption EXCEPT ![t] = "enabled"]
    /\ panelOpen' = [panelOpen EXCEPT ![t] = TRUE]
    /\ activePanelTabs' = activePanelTabs \cup {t}
    /\ lastEvent' = Event("clicked", t, <<OpenCmd(t), SetOptionsCmd(t, TRUE)>>)
    /\ UNCHANGED <<tabState, defaultOption, storeVars, cleanupVars, incVars, panelVars>>

\* Mutant: the set is replaced by the clicked tab instead of extended by it.
ActionClickedReplaceSet(t) ==
    /\ tabState[t] = "open"
    /\ tabOption' = [tabOption EXCEPT ![t] = "enabled"]
    /\ panelOpen' = [panelOpen EXCEPT ![t] = TRUE]
    /\ activePanelTabs' = {t}
    /\ lastEvent' = Event("clicked", t, <<SetOptionsCmd(t, TRUE), OpenCmd(t)>>)
    /\ UNCHANGED <<tabState, defaultOption, storeVars, cleanupVars, incVars, panelVars>>

\* Mutant: a click on a tab already in the set toggles it out of the set.
ActionClickedToggle(t) ==
    /\ tabState[t] = "open"
    /\ tabOption' = [tabOption EXCEPT ![t] = "enabled"]
    /\ panelOpen' = [panelOpen EXCEPT ![t] = TRUE]
    /\ activePanelTabs' = IF t \in activePanelTabs THEN activePanelTabs \ {t}
                          ELSE activePanelTabs \cup {t}
    /\ lastEvent' = Event("clicked", t, <<SetOptionsCmd(t, TRUE), OpenCmd(t)>>)
    /\ UNCHANGED <<tabState, defaultOption, storeVars, cleanupVars, incVars, panelVars>>

\* Mutant: activePanelTabs.add(tab.id) is missing.
ActionClickedNoAdd(t) ==
    /\ tabState[t] = "open"
    /\ tabOption' = [tabOption EXCEPT ![t] = "enabled"]
    /\ panelOpen' = [panelOpen EXCEPT ![t] = TRUE]
    /\ lastEvent' = Event("clicked", t, <<SetOptionsCmd(t, TRUE), OpenCmd(t)>>)
    /\ UNCHANGED <<tabState, defaultOption, activePanelTabs, storeVars, cleanupVars, incVars,
                   panelVars>>

\* chrome.action.onClicked listener, tab.id present
ActionClicked(t) ==
    /\ tabState[t] = "open"
    /\ tabOption' = [tabOption EXCEPT ![t] = "enabled"]
    /\ panelOpen' = [panelOpen EXCEPT ![t] = TRUE]
    /\ activePanelTabs' = activePanelTabs \cup {t}
    /\ lastEvent' = Event("clicked", t, <<SetOptionsCmd(t, TRUE), OpenCmd(t)>>)
    /\ UNCHANGED <<tabState, defaultOption, storeVars, cleanupVars, incVars, panelVars>>

\* chrome.action.onClicked listener, if (!tab?.id) return
ActionClickedNoId ==
    /\ lastEvent' = Event("clicked", 0, <<>>)
    /\ UNCHANGED <<hostVars, activePanelTabs, storeVars, cleanupVars, incVars, panelVars>>

\* Mutant: the global default is set to enabled.
InstalledEnabledTrue ==
    /\ defaultOption' = "enabled"
    /\ lastEvent' = Event("installed", 0, <<SetOptionsCmd(0, TRUE)>>)
    /\ UNCHANGED <<tabState, tabOption, panelOpen, activePanelTabs, storeVars, cleanupVars,
                   incVars, panelVars>>

\* chrome.runtime.onInstalled listener
Installed ==
    /\ defaultOption' = "disabled"
    /\ lastEvent' = Event("installed", 0, <<SetOptionsCmd(0, FALSE)>>)
    /\ UNCHANGED <<tabState, tabOption, panelOpen, activePanelTabs, storeVars, cleanupVars,
                   incVars, panelVars>>

\* Mutant: setOptions({enabled: false}) without the tabId sets the global
\* default and leaves the new tab without an option of its own.
TabCreatedNoTabId(t) ==
    /\ tabState[t] = "none"
    /\ tabState' = [tabState EXCEPT ![t] = "open"]
    /\ defaultOption' = "disabled"
    /\ lastEvent' = Event("created", t, <<SetOptionsCmd(0, FALSE)>>)
    /\ UNCHANGED <<tabOption, panelOpen, activePanelTabs, storeVars, cleanupVars,
                   incVars, panelVars>>

\* chrome.tabs.onCreated listener, tab.id present
TabCreated(t) ==
    /\ tabState[t] = "none"
    /\ tabState' = [tabState EXCEPT ![t] = "open"]
    /\ tabOption' = [tabOption EXCEPT ![t] = "disabled"]
    /\ lastEvent' = Event("created", t, <<SetOptionsCmd(t, FALSE)>>)
    /\ UNCHANGED <<defaultOption, panelOpen, activePanelTabs, storeVars, cleanupVars,
                   incVars, panelVars>>

\* chrome.tabs.onCreated listener, tab.id absent: no set-options
TabCreatedNoId ==
    /\ lastEvent' = Event("created", 0, <<>>)
    /\ UNCHANGED <<hostVars, activePanelTabs, storeVars, cleanupVars, incVars, panelVars>>

\* Mutant: the id leaves the set only once the cleanup has succeeded, which
\* this handler never sees.
TabRemovedKeepsMember(t) ==
    /\ tabState[t] = "open"
    /\ tabState' = [tabState EXCEPT ![t] = "closed"]
    /\ panelOpen' = [panelOpen EXCEPT ![t] = FALSE]
    /\ opPc' = [o \in Ops |-> IF opTab[o] = t /\ opPc[o] \in {"read", "write"}
                                 THEN "killed" ELSE opPc[o]]
    /\ opUpdated' = [o \in Ops |-> IF opTab[o] = t THEN <<>> ELSE opUpdated[o]]
    /\ opMap' = [o \in Ops |-> IF opTab[o] = t THEN EmptyMap ELSE opMap[o]]
    /\ IF t \in activePanelTabs
          THEN cleanupPc' = [cleanupPc EXCEPT ![t] = "read"]
          ELSE UNCHANGED cleanupPc
    /\ lastEvent' = Event("removed", t, <<>>)
    /\ UNCHANGED <<tabOption, defaultOption, activePanelTabs, storeVars, cleanupLocal, incVars,
                   currentTabId, tabSpecificAnsweredQuestions, rendered, opTab, opKind, opArt,
                   nextArt>>

\* chrome.tabs.onRemoved listener: the cleanup call runs up to its first await
\* (the storage get is issued), then the id leaves the set. The host destroys
\* the tab's panel with the tab, so a panel call in flight never resumes.
TabRemoved(t) ==
    /\ tabState[t] = "open"
    /\ tabState' = [tabState EXCEPT ![t] = "closed"]
    /\ panelOpen' = [panelOpen EXCEPT ![t] = FALSE]
    /\ opPc' = [o \in Ops |-> IF opTab[o] = t /\ opPc[o] \in {"read", "write"}
                                 THEN "killed" ELSE opPc[o]]
    /\ opUpdated' = [o \in Ops |-> IF opTab[o] = t THEN <<>> ELSE opUpdated[o]]
    /\ opMap' = [o \in Ops |-> IF opTab[o] = t THEN EmptyMap ELSE opMap[o]]
    /\ IF t \in activePanelTabs
          THEN /\ cleanupPc' = [cleanupPc EXCEPT ![t] = "read"]
               /\ activePanelTabs' = activePanelTabs \ {t}
          ELSE UNCHANGED <<cleanupPc, activePanelTabs>>
    /\ lastEvent' = Event("removed", t, <<>>)
    /\ UNCHANGED <<tabOption, defaultOption, storeVars, cleanupLocal, incVars, currentTabId,
                   tabSpecificAnsweredQuestions, rendered, opTab, opKind, opArt, nextArt>>

\* cleanupTabPanelStoredLastGenData: the get resolves; the entry is deleted from
\* the local copy and the set is issued, or there is nothing to do.
CleanupRead(t) ==
    /\ cleanupPc[t] = "read"
    /\ IF t \in tabSuggestions
          THEN /\ cleanupLocal' = [cleanupLocal EXCEPT ![t] = tabSuggestions \ {t}]
               /\ cleanupPc' = [cleanupPc EXCEPT ![t] = "write"]
          ELSE /\ cleanupPc' = [cleanupPc EXCEPT ![t] = "done"]
               /\ UNCHANGED cleanupLocal
    /\ UNCHANGED <<hostVars, ctlVars, storeVars, incVars, panelVars>>

\* cleanupTabPanelStoredLastGenData: the set resolves, storing the local copy
CleanupWrite(t) ==
    /\ cleanupPc[t] = "write"
    /\ tabSuggestions' = cleanupLocal[t]
    /\ cleanupPc' = [cleanupPc EXCEPT ![t] = "done"]
    /\ cleanupLocal' = [cleanupLocal EXCEPT ![t] = {}]
    /\ UNCHANGED <<hostVars, ctlVars, allAnsweredQuestions, usedSuggestionCreditsCount,
                   incVars, panelVars>>

\* cleanupTabPanelStoredLastGenData: the get or the set rejects; catch logs it
CleanupFail(t) ==
    /\ cleanupPc[t] \in {"read", "write"}
    /\ cleanupPc' = [cleanupPc EXCEPT ![t] = "failed"]
    /\ cleanupLocal' = [cleanupLocal EXCEPT ![t] = {}]
    /\ UNCHANGED <<hostVars, ctlVars, storeVars, incVars, panelVars>>

\* The host unloads the service worker: its memory is lost, handlers in flight
\* never resume.
Unload ==
    /\ activePanelTabs' = {}
    /\ lastEvent' = Event("start", 0, <<>>)
    /\ cleanupPc' = [t \in Tabs |-> IF cleanupPc[t] \in {"read", "write"}
                                       THEN "killed" ELSE cleanupPc[t]]
    /\ cleanupLocal' = [t \in Tabs |-> {}]
    /\ incPc' = [r \in Reqs |-> IF incPc[r] \in {"read", "write"}
                                   THEN "killed" ELSE incPc[r]]
    /\ UNCHANGED <<hostVars, storeVars, incCur, incResp, incReads, incWrites,
                   incErr, incBefore, initCount, overlapped, panelVars>>

\* The panel of tab t stores the tab's last suggestion under tabSuggestions[t].
StoreSuggestion(t) ==
    /\ panelOpen[t]
    /\ tabSuggestions' = tabSuggestions \cup {t}
    /\ UNCHANGED <<hostVars, ctlVars, allAnsweredQuestions, usedSuggestionCreditsCount,
                   cleanupVars, incVars, panelVars>>

\* ------------------------------------------------------------------ usage counter
NoCount == 0 - 1

\* Mutant: const newCount = currentCount++ (the value before the increment).
NewCountPostIncrement(currentCount) == currentCount

\* const newCount = currentCount + 1
NewCount(currentCount) == currentCount + 1

\* How the promise of incrementCreditUsage() settles.
Resolved(v) == [kind |-> "resolved", value |-> v, error |-> "none"]
Rejected(e) == [kind |-> "rejected", value |-> NoCount, error |-> e]

\* Mutant: the catch block logs and does not rethrow, so the call resolves
\* with undefined.
IncrementCatchSwallow(storageError) == Resolved(NoCount)

\* catch (error) { console.error(...); throw error('...') }: the caught storage
\* error is an object, not a function, so calling it throws a TypeError, and
\* that is what the promise rejects with.
IncrementCatch(storageError) == Rejected("TypeError")

\* .then((newCount) => sendResponse({success: true, newCount}))
\* .catch((error) => sendResponse({success: false, error})): the responses sent.
OnMessageReplies(outcome) ==
    IF outcome.kind = "resolved"
       THEN <<[success |-> TRUE, newCount |-> outcome.value, error |-> "none"]>>
       ELSE <<[success |-> FALSE, newCount |-> NoCount, error |-> outcome.error]>>

InFlight(r) == incPc[r] \in {"read", "write"}

\* chrome.runtime.onMessage listener, action 'incrementCredits': the call runs
\* up to its first await (the storage get is issued). Requests are numbered in
\* the order they arrive.
IncStart(r) ==
    /\ incPc[r] = "idle"
    /\ \A q \in Reqs : q < r => incPc[q] # "idle"
    /\ incPc' = [incPc EXCEPT ![r] = "read"]
    /\ incReads' = [incReads EXCEPT ![r] = @ + 1]
    /\ incBefore' = [incBefore EXCEPT ![r] = usedSuggestionCreditsCount]
    /\ overlapped' = (overlapped \/ \E q \in Reqs : InFlight(q))
    /\ lastEvent' = Event("message", 0, <<>>)
    /\ UNCHANGED <<hostVars, activePanelTabs, storeVars, cleanupVars, incCur, incResp,
                   incWrites, incErr, initCount, panelVars>>

\* incrementCreditUsage: the get resolves; currentCount and newCount are
\* computed and the set is issued.
IncRead(r) ==
    /\ incPc[r] = "read"
    /\ incCur' = [incCur EXCEPT ![r] = CountOrZero(usedSuggestionCreditsCount)]
    /\ incPc' = [incPc EXCEPT ![r] = "write"]
    /\ incWrites' = [incWrites EXCEPT ![r] = @ + 1]
    /\ UNCHANGED <<hostVars, ctlVars, storeVars, cleanupVars, incResp, incReads, incErr,
                   incBefore, initCount, overlapped, panelVars>>

\* incrementCreditUsage: the set resolves; newCount is returned and sent back.
IncWrite(r) ==
    /\ incPc[r] = "write"
    /\ usedSuggestionCreditsCount' = <<NewCount(incCur[r])>>
    /\ incPc' = [incPc EXCEPT ![r] = "done"]
    /\ incResp' = [incResp EXCEPT ![r] = @ \o OnMessageReplies(Resolved(NewCount(incCur[r])))]
    /\ UNCHANGED <<hostVars, ctlVars, tabSuggestions, allAnsweredQuestions, cleanupVars,
                   incCur, incReads, incWrites, incErr, incBefore, initCount, overlapped,
                   panelVars>>

\* Mutant: the catch block of a rejected get issues the get again.
IncReadFailRetry(r) ==
    /\ incPc[r] = "read"
    /\ incReads[r] < 2
    /\ incReads' = [incReads EXCEPT ![r] = @ + 1]
    /\ incErr' = [incErr EXCEPT ![r] = "get"]
    /\ UNCHANGED <<hostVars, ctlVars, storeVars, cleanupVars, incPc, incCur, incResp, incWrites,
                   incBefore, initCount, overlapped, panelVars>>

\* incrementCreditUsage: the get rejects; the catch block runs.
IncReadFail(r) ==
    /\ incPc[r] = "read"
    /\ incPc' = [incPc EXCEPT ![r] = "done"]
    /\ incResp' = [incResp EXCEPT ![r] = @ \o OnMessageReplies(IncrementCatch("get"))]
    /\ incErr' = [incErr EXCEPT ![r] = "get"]
    /\ UNCHANGED <<hostVars, ctlVars, storeVars, cleanupVars, incCur, incReads, incWrites,
                   incBefore, initCount, overlapped, panelVars>>

\* incrementCreditUsage: the set rejects, storing nothing; the catch block runs.
IncWriteFail(r) ==
    /\ incPc[r] = "write"
    /\ incPc' = [incPc EXCEPT ![r] = "done"]
    /\ incResp' = [incResp EXCEPT ![r] = @ \o OnMessageReplies(IncrementCatch("set"))]
    /\ incErr' = [incErr EXCEPT ![r] = "set"]
    /\ UNCHANGED <<hostVars, ctlVars, storeVars, cleanupVars, incCur, incReads, incWrites,
                   incBefore, initCount, overlapped, panelVars>>

NextCounter ==
    \/ \E r \in Reqs : IncStart(r)
    \/ \E r \in Reqs : IncRead(r)
    \/ \E r \in Reqs : IncWrite(r)
    \/ \E r \in Reqs : IncReadFail(r)
    \/ \E r \in Reqs : IncWriteFail(r)
    \/ Unload

SpecCounter == InitCounter /\ [][NextCounter]_vars

\* ------------------------------------------------------------------ panel hook
\* allAnsweredQuestions[currentTabId], or [] when the key or the entry is absent
EntryOf(map, t) == IF t \in DOMAIN map THEN map[t] ELSE <<>>

\* allAnsweredQuestions[currentTabId] = updatedTabAnsweredQuestions
WithEntry(map, t, list) == [k \in DOMAIN map \cup {t} |-> IF k = t THEN list ELSE map[k]]

\* tabSpecificAnsweredQuestions.filter((q) => q.id !== id)
RECURSIVE FilterOut(_, _)
FilterOut(list, id) ==
    IF list = <<>> THEN <<>>
    ELSE IF Head(list) = id THEN FilterOut(Tail(list), id)
    ELSE <<Head(list)>> \o FilterOut(Tail(list), id)

\* The hook mounts in the panel of tab t: the tab query resolves and
\* setCurrentTabId runs, then the tab's stored questions are loaded and shown.
PanelMount(t) ==
    /\ panelOpen[t]
    /\ currentTabId[t] = 0
    /\ currentTabId' = [currentTabId EXCEPT ![t] = t]
    /\ tabSpecificAnsweredQuestions' =
           [tabSpecificAnsweredQuestions EXCEPT ![t] = EntryOf(allAnsweredQuestions, t)]
    /\ rendered' = [rendered EXCEPT ![t] = EntryOf(allAnsweredQuestions, t)]
    /\ UNCHANGED <<hostVars, ctlVars, storeVars, cleanupVars, incVars, opVars, nextArt>>

\* React renders the hook again after a setState: saveQuestion and
\* deleteQuestion are re-created and capture the current list.
Render(t) ==
    /\ panelOpen[t]
    /\ rendered[t] # tabSpecificAnsweredQuestions[t]
    /\ rendered' = [rendered EXCEPT ![t] = tabSpecificAnsweredQuestions[t]]
    /\ UNCHANGED <<hostVars, ctlVars, storeVars, cleanupVars, incVars, currentTabId,
                   tabSpecificAnsweredQuestions, opVars, nextArt>>

\* The slot of the next call.
FreeOp(o) == opPc[o] = "idle" /\ \A q \in Ops : q < o => opPc[q] # "idle"

\* A call of panel t passed the guard: its list is set as the state and the
\* storage get is issued.
BeginOp(o, t, kind, art, updated) ==
    /\ tabSpecificAnsweredQuestions' = [tabSpecificAnsweredQuestions EXCEPT ![t] = updated]
    /\ opTab' = [opTab EXCEPT ![o] = t]
    /\ opKind' = [opKind EXCEPT ![o] = kind]
    /\ opArt' = [opArt EXCEPT ![o] = art]
    /\ opUpdated' = [opUpdated EXCEPT ![o] = updated]
    /\ opPc' = [opPc EXCEPT ![o] = "read"]

\* Mutant: saveQuestion without its if (!currentTabId) return.
SaveQuestionNoGuard(t) ==
    /\ panelOpen[t]
    /\ nextArt < MaxArt
    /\ nextArt' = nextArt + 1
    /\ \E o \in Ops :
          /\ FreeOp(o)
          /\ BeginOp(o, t, "save", nextArt + 1, <<nextArt + 1>> \o rendered[t])
    /\ UNCHANGED <<hostVars, ctlVars, storeVars, cleanupVars, incVars, currentTabId,
                   rendered, opMap>>

\* mutation.onSuccess builds the new artifact (a fresh id) and calls
\* saveQuestion, here up to its first await: without a tab id it returns;
\* otherwise the artifact is put in front of the list its closure holds, the
\* state is set and the storage get is issued.
SaveQuestion(t) ==
    /\ panelOpen[t]
    /\ nextArt < MaxArt
    /\ nextArt' = nextArt + 1
    /\ IF currentTabId[t] = 0
          THEN UNCHANGED <<tabSpecificAnsweredQuestions, opTab, opKind, opArt, opUpdated, opPc>>
          ELSE \E o \in Ops :
                  /\ FreeOp(o)
                  /\ BeginOp(o, t, "save", nextArt + 1, <<nextArt + 1>> \o rendered[t])
    /\ UNCHANGED <<hostVars, ctlVars, storeVars, cleanupVars, incVars, currentTabId,
                   rendered, opMap>>

\* deleteQuestion(id) up to its first await, called for a listed artifact or,
\* while the tab id is unknown and nothing is listed, for any artifact
\* generated so far: without a tab id it returns; otherwise the artifact is
\* filtered out of the list its closure holds, the state is set and the
\* storage get is issued.
DeleteQuestion(t, id) ==
    /\ panelOpen[t]
    /\ \/ \E i \in DOMAIN rendered[t] : rendered[t][i] = id
       \/ currentTabId[t] = 0 /\ id <= nextArt
    /\ IF currentTabId[t] = 0
          THEN UNCHANGED <<tabSpecificAnsweredQuestions, opTab, opKind, opArt, opUpdated, opPc>>
          ELSE \E o \in Ops :
                  /\ FreeOp(o)
                  /\ BeginOp(o, t, "delete", id, FilterOut(rendered[t], id))
    /\ UNCHANGED <<hostVars, ctlVars, storeVars, cleanupVars, incVars, currentTabId,
                   rendered, opMap, nextArt>>

\* saveQuestion / deleteQuestion: the get resolves; the tab's entry of the
\* local map is replaced and the set is issued.
OpRead(o) ==
    /\ opPc[o] = "read"
    /\ panelOpen[opTab[o]]
    /\ opMap' = [opMap EXCEPT
                    ![o] = WithEntry(allAnsweredQuestions, currentTabId[opTab[o]], opUpdated[o])]
    /\ opPc' = [opPc EXCEPT ![o] = "write"]
    /\ UNCHANGED <<hostVars, ctlVars, storeVars, cleanupVars, incVars, currentTabId,
                   tabSpecificAnsweredQuestions, rendered, opTab, opKind, opArt, opUpdated,
                   nextArt>>

\* saveQuestion / deleteQuestion: the set resolves, storing the local map
OpWrite(o) ==
    /\ opPc[o] = "write"
    /\ panelOpen[opTab[o]]
    /\ allAnsweredQuestions' = opMap[o]
    /\ opPc' = [opPc EXCEPT ![o] = "done"]
    /\ opUpdated' = [opUpdated EXCEPT ![o] = <<>>]
    /\ opMap' = [opMap EXCEPT ![o] = EmptyMap]
    /\ UNCHANGED <<hostVars, ctlVars, tabSuggestions, usedSuggestionCreditsCount, cleanupVars,
                   incVars, currentTabId, tabSpecificAnsweredQuestions, rendered, opTab,
                   opKind, opArt, nextArt>>

\* saveQuestion / deleteQuestion: the get or the set rejects; catch records the
\* error message, the list already set stays.
OpFail(o) ==
    /\ opPc[o] \in {"read", "write"}
    /\ panelOpen[opTab[o]]
    /\ opPc' = [opPc EXCEPT ![o] = "failed"]
    /\ opUpdated' = [opUpdated EXCEPT ![o] = <<>>]
    /\ opMap' = [opMap EXCEPT ![o] = EmptyMap]
    /\ UNCHANGED <<hostVars, ctlVars, storeVars, cleanupVars, incVars, currentTabId,
                   tabSpecificAnsweredQuestions, rendered, opTab, opKind, opArt, nextArt>>

\* The panels alone: activation opens them, they save and delete questions.
NextPanel ==
    \/ \E t \in Tabs : ActionClicked(t)
    \/ ActionClickedNoId
    \/ TabCreatedNoId
    \/ \E t \in Tabs : PanelMount(t)
    \/ \E t \in Tabs : Render(t)
    \/ \E t \in Tabs : SaveQuestion(t)
    \/ \E t \in Tabs, id \in Arts : DeleteQuestion(t, id)
    \/ \E o \in Ops : OpRead(o)
    \/ \E o \in Ops : OpWrite(o)
    \/ \E o \in Ops : OpFail(o)

SpecPanel == Init /\ [][NextPanel]_vars

NextArtifacts ==
    \/ \E t \in Tabs : ActionClicked(t)
    \/ \E t \in Tabs : TabRemoved(t)
    \/ \E t \in Tabs : CleanupRead(t)
    \/ \E t \in Tabs : CleanupWrite(t)
    \/ \E t \in Tabs : CleanupFail(t)
    \/ \E t \in Tabs : StoreSuggestion(t)
    \/ \E t \in Tabs : PanelMount(t)
    \/ \E t \in Tabs : Render(t)
    \/ \E t \in Tabs : SaveQuestion(t)
    \/ \E t \in Tabs, id \in Arts : DeleteQuestion(t, id)
    \/ \E o \in Ops : OpRead(o)
    \/ \E o \in Ops : OpWrite(o)
    \/ \E o \in Ops : OpFail(o)

SpecArtifacts == Init /\ [][NextArtifacts]_vars

Next ==
    \/ \E t \in Tabs : ActionClicked(t)
    \/ ActionClickedNoId
    \/ Installed
    \/ \E t \in Tabs : TabCreated(t)
    \/ TabCreatedNoId
    \/ \E t \in Tabs : TabRemoved(t)
    \/ \E t \in Tabs : CleanupRead(t)
    \/ \E t \in Tabs : CleanupWrite(t)
    \/ \E t \in Tabs : CleanupFail(t)
    \/ Unload
    \/ \E t \in Tabs : StoreSuggestion(t)

Spec == Init /\ [][Next]_vars

\* ------------------------------------------------------------------ properties
AllCleanupsComplete == \A u \in Tabs : cleanupPc[u] \in {"idle", "done"}

NStarted == Cardinality({r \in Reqs : incPc[r] # "idle"})

Succeeded(r) == incPc[r] = "done" /\ Len(incResp[r]) = 1 /\ incResp[r][1].success

\* C1: when a tab that was in ActivePanelTabs has been removed and every
\* cleanup has run to completion without a storage error, tabSuggestions holds
\* no entry for the tab and ActivePanelTabs does not contain it, whatever the
\* interleaving of the cleanups' reads and writes.
C1_RemovedTabLeavesNoSuggestion ==
    \A t \in Tabs :
        (cleanupPc[t] = "done" /\ AllCleanupsComplete)
            => (t \notin tabSuggestions /\ t \notin activePanelTabs)

\* C2: when a tab that was in ActivePanelTabs has been removed and its
\* removal has been fully handled, allAnsweredQuestions has no key for the tab.
C2_RemovedTabLeavesNoAnsweredQuestions ==
    \A t \in Tabs :
        (cleanupPc[t] = "done" /\ AllCleanupsComplete)
            => t \notin DOMAIN allAnsweredQuestions

\* C3: once a tab that had its panel enabled has been removed and all handlers
\* have completed, the persisted per-tab maps hold no entry for the tab, also
\* when the controller was unloaded and restarted in between.
C3_NoStoredStateForRemovedTabs ==
    \A t \in Tabs :
        (tabState[t] = "closed" /\ tabOption[t] = "enabled" /\ AllCleanupsComplete)
            => (t \notin tabSuggestions /\ t \notin DOMAIN allAnsweredQuestions)

\* C4: increment calls that never overlap and all succeed, starting from the
\* stored count C (0 when absent): the k-th returns C+k, and after N of them
\* the stored counter is C+N.
C4_SequentialIncrements ==
    ~overlapped =>
        \A k \in Reqs :
            (\A j \in 1..k : Succeeded(j)) =>
                /\ incResp[k][1].newCount = initCount + k
                /\ NStarted = k => usedSuggestionCreditsCount = <<initCount + k>>

\* C4 witness: the counter was absent, two calls ran one after the other, the
\* first returned 1 and the second 2.
C4_Witness ==
    /\ ~overlapped
    /\ NStarted = 2
    /\ incBefore[1] = <<>>
    /\ Succeeded(1) /\ incResp[1][1].newCount = 1
    /\ Succeeded(2) /\ incResp[2][1].newCount = 2
    /\ usedSuggestionCreditsCount = <<2>>

\* C5: two increment calls, interleaved in any way, that both complete from
\* the stored count C leave the counter at C+1 or C+2, and at C+1 exactly when
\* both reads observed C.
C5_TwoIncrementsRace ==
    (NStarted = 2 /\ Succeeded(1) /\ Succeeded(2)) =>
        /\ usedSuggestionCreditsCount \in {<<initCount + 1>>, <<initCount + 2>>}
        /\ usedSuggestionCreditsCount = <<initCount + 1>>
              <=> (incCur[1] = initCount /\ incCur[2] = initCount)

\* C5 witness: both calls read the same count and one increment is lost.
C5_Witness ==
    /\ NStarted = 2 /\ Succeeded(1) /\ Succeeded(2)
    /\ incCur[1] = initCount /\ incCur[2] = initCount
    /\ usedSuggestionCreditsCount = <<initCount + 1>>

\* C6: no write to usedSuggestionCreditsCount stores a value smaller than the
\* value stored immediately before it.
C6_CounterNeverDecreases ==
    [][CountOrZero(usedSuggestionCreditsCount') >= CountOrZero(usedSuggestionCreditsCount)]_vars

\* C7: whenever no increment is in flight, the stored counter is its initial
\* value plus the number of requests answered with success: true.
C7_NoIncrementLost ==
    (\A r \in Reqs : ~InFlight(r)) =>
        CountOrZero(usedSuggestionCreditsCount)
            = initCount + Cardinality({r \in Reqs : Succeeded(r)})

\* C8: a request whose handler finishes gets exactly one response, sent when
\* the call settles: {success: true, newCount} with newCount the value the
\* store then holds when no storage call rejected, {success: false, error}
\* when one did; before that, and for a killed handler, there is none.
C8_ExactlyOneStructuredResponse ==
    [][\A r \in Reqs :
          IF incPc'[r] = "done"
             THEN /\ Len(incResp'[r]) = 1
                  /\ incPc[r] = "done" => incResp'[r] = incResp[r]
                  /\ LET m == incResp'[r][1] IN
                        IF incErr'[r] = "none"
                           THEN /\ m.success /\ m.error = "none"
                                /\ incPc[r] # "done" =>
                                       usedSuggestionCreditsCount' = <<m.newCount>>
                           ELSE ~m.success /\ m.error # "none"
             ELSE incResp'[r] = <<>>]_vars

\* C8 witness: one request was answered with success, another with failure.
C8_Witness ==
    \E r, q \in Reqs :
        /\ incPc[r] = "done" /\ incErr[r] = "none" /\ incResp[r][1].success
        /\ incResp[r][1].newCount = incCur[r] + 1
        /\ incPc[q] = "done" /\ incErr[q] = "set" /\ ~incResp[q][1].success

\* C9: an increment issues at most one storage read and one storage write;
\* the step in which its read or its write rejects ends the call with a
\* failure response and leaves the stored counter as it is, which is the value
\* stored when the call started if no calls overlapped.
C9_FailedIncrementStoresNothing ==
    [][\A r \in Reqs :
          /\ incReads'[r] <= 1
          /\ incWrites'[r] <= 1
          /\ (incErr[r] = "none" /\ incErr'[r] # "none") =>
                /\ incPc'[r] = "done"
                /\ Len(incResp'[r]) = 1 /\ ~incResp'[r][1].success
                /\ usedSuggestionCreditsCount' = usedSuggestionCreditsCount
                /\ ~overlapped => usedSuggestionCreditsCount' = incBefore[r]
                /\ incErr'[r] = "get" => incWrites'[r] = 0]_vars

\* C9 witness: a write rejected after the read succeeded, the stored counter
\* still holds what it held when the call started; an earlier call succeeded.
C9_Witness ==
    \E r \in Reqs :
        /\ incErr[r] = "set" /\ incReads[r] = 1 /\ incWrites[r] = 1
        /\ ~incResp[r][1].success
        /\ usedSuggestionCreditsCount = incBefore[r]
        /\ incBefore[r] # <<>>
        /\ \E q \in Reqs : q < r /\ Succeeded(q)

\* C10: the step that creates tab t leaves t's panel option disabled, and
\* changes neither ActivePanelTabs, nor another tab's option, nor the default.
C10_NewTabStartsDisabled ==
    [][\A t \in Tabs :
          (tabState[t] = "none" /\ tabState'[t] = "open") =>
              /\ tabOption'[t] = "disabled"
              /\ activePanelTabs' = activePanelTabs
              /\ defaultOption' = defaultOption
              /\ \A u \in Tabs \ {t} : tabOption'[u] = tabOption[u]]_vars

\* C10 witness: a tab has just been created while another tab is enabled and
\* in ActivePanelTabs; the new tab is disabled.
C10_Witness ==
    /\ lastEvent.type = "created" /\ lastEvent.tab # 0
    /\ Enablement(lastEvent.tab) = "disabled"
    /\ lastEvent.tab \notin activePanelTabs
    /\ \E u \in Tabs : u # lastEvent.tab /\ Enablement(u) = "enabled" /\ u \in activePanelTabs

\* The last enablement transition applied to tab t set it to enabled: an
\* activation enabled it, and it has not been removed since (creation, which
\* disables, comes before any activation of a tab).
LastEnabled(t) == tabState[t] = "open" /\ tabOption[t] = "enabled"

\* C11: an activation gesture on tab t issues set-options(t, path, enabled)
\* and then open-panel(t), in that order, adds t to ActivePanelTabs and nothing
\* else, and changes no other tab's option.
C11_ActivationEnablesAndOpens ==
    [][\A t \in Tabs :
          (lastEvent'.type = "clicked" /\ lastEvent'.tab = t) =>
              /\ lastEvent'.cmds =
                     <<[cmd |-> "setOptions", tabId |-> t, enabled |-> TRUE,
                        path |-> "sidepanel.html"],
                       [cmd |-> "open", tabId |-> t, enabled |-> TRUE, path |-> "none"]>>
              /\ activePanelTabs' = activePanelTabs \cup {t}
              /\ tabOption'[t] = "enabled"
              /\ panelOpen'[t]
              /\ defaultOption' = defaultOption
              /\ \A u \in Tabs \ {t} : tabOption'[u] = tabOption[u]]_vars

\* C11 witness: from the empty set, a gesture on one tab leaves exactly that
\* tab in ActivePanelTabs while another open tab keeps its disabled option.
C11_Witness ==
    /\ lastEvent.type = "clicked" /\ lastEvent.tab # 0 /\ ~lastEvent.member
    /\ activePanelTabs = {lastEvent.tab}
    /\ Len(lastEvent.cmds) = 2
    /\ \E u \in Tabs : u # lastEvent.tab /\ tabState[u] = "open" /\ tabOption[u] = "disabled"

\* C12 as claimed: a tab in ActivePanelTabs stays in it in every later state
\* until it is removed, a controller unload in between included.
C12_MemberUntilRemoved ==
    [][\A t \in Tabs :
          (t \in activePanelTabs /\ tabState'[t] = "open") => t \in activePanelTabs']_vars

\* C12 as amended: a tab in ActivePanelTabs stays in it until it is removed
\* or the controller is unloaded.
C12_MemberUntilRemovedOrUnloaded ==
    [][\A t \in Tabs :
          (t \in activePanelTabs /\ tabState'[t] = "open" /\ ~Unload)
              => t \in activePanelTabs']_vars

\* C12 witness: a tab is still in the set after another tab was activated and
\* removed.
C12_Witness ==
    /\ lastEvent.type = "removed" /\ lastEvent.member
    /\ \E t \in activePanelTabs : t # lastEvent.tab /\ LastEnabled(t)

\* C13 as claimed: in every reachable state a tab is in ActivePanelTabs if and
\* only if its last enablement transition set it to enabled.
C13_MemberIffLastEnabled ==
    \A t \in Tabs : t \in activePanelTabs <=> LastEnabled(t)

\* C13 as amended: every member of ActivePanelTabs is a tab whose last
\* transition set it to enabled, and every step other than a controller unload
\* keeps the equivalence for a tab for which it held.
C13_MemberIffLastEnabledUnlessUnloaded ==
    [][/\ \A t \in Tabs : t \in activePanelTabs' => LastEnabled(t)'
       /\ ~Unload =>
              \A t \in Tabs :
                  (t \in activePanelTabs <=> LastEnabled(t))
                      => (t \in activePanelTabs' <=> LastEnabled(t)')]_vars

\* C13 witness: after an unload one enabled tab is missing from the set while
\* a tab activated since is in it.
C13_Witness ==
    \E t, u \in Tabs :
        /\ t \in activePanelTabs /\ LastEnabled(t)
        /\ u \notin activePanelTabs /\ LastEnabled(u)

\* C14: an activation gesture on a tab already in ActivePanelTabs leaves the
\* set unchanged, and the host is sent set-options and open-panel again.
C14_ReactivationIdempotent ==
    [][\A t \in Tabs :
          (lastEvent'.type = "clicked" /\ lastEvent'.tab = t /\ t \in activePanelTabs) =>
              /\ activePanelTabs' = activePanelTabs
              /\ lastEvent'.cmds = <<SetOptionsCmd(t, TRUE), OpenCmd(t)>>]_vars

\* C14 witness: the last gesture was on a tab that was already in the set.
C14_Witness ==
    /\ lastEvent.type = "clicked" /\ lastEvent.member
    /\ lastEvent.tab \in activePanelTabs
    /\ Len(lastEvent.cmds) = 2

\* C15 as claimed: right after an install/update event every tab's panel
\* enablement is disabled, whatever came before.
C15_AllDisabledAfterInstall ==
    lastEvent.type = "installed" => \A t \in Tabs : Enablement(t) = "disabled"

\* C15 as amended: once an install/update event has set the global default,
\* every tab that no activation gesture enabled is disabled.
C15_NotActivatedDisabledAfterInstall ==
    defaultOption # "unset" =>
        \A t \in Tabs : tabOption[t] # "enabled" => Enablement(t) = "disabled"

\* C15 witness: right after an install event a tab without an option of its
\* own is disabled while a tab activated earlier is still enabled.
C15_Witness ==
    /\ lastEvent.type = "installed"
    /\ \E t \in Tabs : tabState[t] = "open" /\ tabOption[t] = "unset"
                           /\ Enablement(t) = "disabled"
    /\ \E u \in Tabs : Enablement(u) = "enabled"

\* C16: a storage get or set that fails during the cleanup of a removed tab T
\* is caught inside the cleanup: the failing step changes nothing in storage
\* and nothing in the set, the cleanup changed storage in no earlier step
\* either (its only write is its last step), T left ActivePanelTabs when the
\* cleanup was started and stays out whatever the outcome, and after the
\* failure the controller still handles every event.
CleanupFails(t) == cleanupPc[t] \in {"read", "write"} /\ cleanupPc'[t] = "failed"

C16_CleanupFailureIsContained ==
    [][\A t \in Tabs :
          /\ CleanupFails(t) =>
                /\ storeVars' = storeVars
                /\ activePanelTabs' = activePanelTabs
                /\ hostVars' = hostVars
          /\ cleanupPc[t] = "read" /\ cleanupPc'[t] = "write" => storeVars' = storeVars
          /\ cleanupPc'[t] \in {"read", "write", "failed"} => t \notin activePanelTabs'
          /\ cleanupPc[t] = "failed" =>
                /\ cleanupPc'[t] = "failed"
                /\ ENABLED ActionClickedNoId
                /\ ENABLED Installed
                /\ \A u \in Tabs : tabState[u] = "open" =>
                                       ENABLED ActionClicked(u) /\ ENABLED TabRemoved(u)
                /\ \A u \in Tabs : tabState[u] = "none" => ENABLED TabCreated(u)
    ]_vars

\* The cleanup of a removed tab failed with the tab's entry still stored, the
\* tab is out of the set, and a later activation of another tab was handled.
C16_Witness ==
    \E t \in Tabs :
        /\ cleanupPc[t] = "failed"
        /\ t \in tabSuggestions
        /\ t \notin activePanelTabs
        /\ lastEvent.type = "clicked" /\ lastEvent.tab \notin {0, t}
        /\ lastEvent.tab \in activePanelTabs
        /\ ~lastEvent.member

\* C17: operations that need a tab id do nothing without one. An activation
\* gesture or a tab-creation event without a tab id issues no host command and
\* changes neither the host nor ActivePanelTabs; no saveQuestion or
\* deleteQuestion call is ever in progress for a panel whose tab id is unknown,
\* so such a panel reads and writes nothing: its in-memory list stays as it
\* was (empty), allAnsweredQuestions changes only in the write step of a call
\* of a panel that knows its tab, and no entry is stored under a missing id.
NoIdEvent ==
    /\ lastEvent' # lastEvent
    /\ lastEvent'.tab = 0
    /\ lastEvent'.type \in {"clicked", "created"}

C17_NoTabIdIsNoOp ==
    [][/\ NoIdEvent =>
             /\ lastEvent'.cmds = <<>>
             /\ activePanelTabs' = activePanelTabs
             /\ hostVars' = hostVars
             /\ storeVars' = storeVars
       /\ \A o \in Ops : opPc'[o] # "idle" => currentTabId'[opTab'[o]] # 0
       /\ \A t \in Tabs : currentTabId'[t] = 0 =>
             /\ tabSpecificAnsweredQuestions'[t] = tabSpecificAnsweredQuestions[t]
             /\ tabSpecificAnsweredQuestions'[t] = <<>>
       /\ allAnsweredQuestions' # allAnsweredQuestions =>
             \E o \in Ops : /\ opPc[o] = "write" /\ opPc'[o] = "done"
                            /\ currentTabId[opTab[o]] # 0
       /\ 0 \notin DOMAIN allAnsweredQuestions'
    ]_vars

\* An artifact was generated and saveQuestion called in a panel that does not
\* know its tab yet: no call is in progress and nothing is stored; and the
\* last event is an activation without a tab id while another tab is active.
C17_Witness ==
    /\ nextArt > 0
    /\ \A o \in Ops : opPc[o] = "idle"
    /\ \E t \in Tabs : panelOpen[t] /\ currentTabId[t] = 0
    /\ \A t \in Tabs : currentTabId[t] = 0
    /\ allAnsweredQuestions = EmptyMap
    /\ lastEvent.type = "clicked" /\ lastEvent.tab = 0 /\ lastEvent.cmds = <<>>
    /\ activePanelTabs # {}

\* The artifacts of the calls made so far (slots 1..n), most recent first.
RECURSIVE SavedMostRecentFirst(_)
SavedMostRecentFirst(n) ==
    IF n = 0 THEN <<>>
    ELSE (IF opPc[n] # "idle" THEN <<opArt[n]>> ELSE <<>>) \o SavedMostRecentFirst(n - 1)

\* Every call made so far is a saveQuestion of panel t that completed without
\* a storage error.
OnlyCompletedSavesOf(t) ==
    /\ \E o \in Ops : opPc[o] # "idle"
    /\ \A o \in Ops : opPc[o] # "idle" =>
          opTab[o] = t /\ opKind[o] = "save" /\ opPc[o] = "done"

\* C18: when the only calls made are saveQuestion calls of one tab's panel
\* and all of them completed without storage error, overlapping or not, the
\* sequence stored under allAnsweredQuestions[tab] holds every saved artifact
\* exactly once, most recent first.
C18_OverlappingSavesKeepAll ==
    \A t \in Tabs :
        OnlyCompletedSavesOf(t) =>
            EntryOf(allAnsweredQuestions, t) = SavedMostRecentFirst(MaxOp)

\* A panel's write changes the entry of no other tab.
WriteKeepsOthers(o) ==
    \A b \in Tabs \ {opTab[o]} :
        /\ b \in DOMAIN allAnsweredQuestions' <=> b \in DOMAIN allAnsweredQuestions
        /\ EntryOf(allAnsweredQuestions', b) = EntryOf(allAnsweredQuestions, b)

\* C19: per-tab isolation of allAnsweredQuestions: the write of a saveQuestion
\* or deleteQuestion of tab A's panel changes only A's entry, so that whatever
\* the interleaving of the reads and writes of two panels, the entry of
\* another tab B stays what B's own panel last wrote.
C19_PanelWritesOnlyOwnEntry ==
    [][\A o \in Ops : opPc[o] = "write" /\ opPc'[o] = "done" => WriteKeepsOthers(o)]_vars
====
